---- MODULE Spec2Model ----
(***************************************************************************)
(* Model of the js-parser-rs front end: the two snapshots of the Lexer     *)
(* (src/Lexer.rs and src/lexer/Lexer.rs) and the Parser                    *)
(* (src/lexer/Parser.rs).                                                  *)
(*                                                                         *)
(* A source text is a sequence of one-character strings.  Option<char> is  *)
(* a character or NoChar; Option<Token> is a record tagged "Some" (with    *)
(* the token) or "None"; a panic (unwrap on Err) is the record tagged      *)
(* "Panic".  An f64 is the decimal m / 10^e it stands for, normalised.     *)
(*                                                                         *)
(* Parser.rs calls methods it does not define (the token primitives and    *)
(* the levels between equality and call); those follow the grammar and the *)
(* primitives of the design document.                                      *)
(***************************************************************************)
EXTENDS Integers, Sequences, FiniteSets, TLC

VARIABLES
    snapshot,   \* which Lexer.rs is running: "lexer" (src/lexer/Lexer.rs) or "old" (src/Lexer.rs)
    source,     \* Lexer.source: the characters of the source text
    pos,        \* Lexer.pos: the cursor, a count of characters consumed
    result,     \* the value returned by the last next_token call
    out,        \* every value returned by next_token so far, in call order
    tokens,     \* Parser.tokens
    current,    \* Parser.current
    ast         \* the value returned by the parser entry point, NoAst before

vars == <<snapshot, source, pos, result, out, tokens, current, ast>>

-----------------------------------------------------------------------------
(* Bounds *)

MaxLen == 5         \* longest enumerated source text
MaxCalls == 8       \* next_token calls per run
MaxTail == 2        \* longest tail appended to a word in the keyword inputs
MaxTokens == 5      \* longest enumerated token sequence for the parser
MaxArgLists == 2    \* most argument lists after a primary in the call chains
MaxOperands == 3    \* most operands joined by operators in the expression chains

-----------------------------------------------------------------------------
(* Characters *)

Digits == {"0", "1", "2", "3", "4", "5", "6", "7", "8", "9"}

LowerCase == {"a", "b", "c", "d", "e", "f", "g", "h", "i", "j", "k", "l", "m",
              "n", "o", "p", "q", "r", "s", "t", "u", "v", "w", "x", "y", "z"}

UpperCase == {"A", "B", "C", "D", "E", "F", "G", "H", "I", "J", "K", "L", "M",
              "N", "O", "P", "Q", "R", "S", "T", "U", "V", "W", "X", "Y", "Z"}

NoChar == ""

is_ascii_digit(ch) == ch \in Digits

is_ascii_alphabetic(ch) == ch \in LowerCase \cup UpperCase

is_whitespace(ch) == ch \in {" ", "\t", "\n", "\r"}

DigitValue(ch) ==
    CASE ch = "0" -> 0 [] ch = "1" -> 1 [] ch = "2" -> 2 [] ch = "3" -> 3
      [] ch = "4" -> 4 [] ch = "5" -> 5 [] ch = "6" -> 6 [] ch = "7" -> 7
      [] ch = "8" -> 8 [] ch = "9" -> 9

-----------------------------------------------------------------------------
(* Tokens and return values *)

Tok(kind) == [kind |-> kind]

Number(m, e) == [kind |-> "Number", m |-> m, e |-> e]

String(text) == [kind |-> "String", text |-> text]

Identifier(text) == [kind |-> "Identifier", text |-> text]

Some(tok) == [tag |-> "Some", tok |-> tok]

None == [tag |-> "None"]

Panic == [tag |-> "Panic"]

Ret(r, p) == [ret |-> r, pos |-> p]

-----------------------------------------------------------------------------
(* Cursor primitives *)

peek(src, p) == IF p < Len(src) THEN src[p + 1] ELSE NoChar

peek_n(src, p, n) == IF p + n < Len(src) THEN src[p + n + 1] ELSE NoChar

\* next without its test for the end of the source: the cursor moves on even
\* where there is no character left
next_always_advances(src, p) == [ch |-> peek(src, p), pos |-> p + 1]

\* next: the character and the cursor after it
next(src, p) ==
    LET ch == peek(src, p)
    IN  [ch |-> ch, pos |-> IF ch # NoChar THEN p + 1 ELSE p]

RECURSIVE skip_whitespace(_, _)
skip_whitespace(src, p) ==
    LET ch == peek(src, p)
    IN  IF ch # NoChar /\ is_whitespace(ch)
        THEN skip_whitespace(src, p + 1)
        ELSE p

\* skip_comment that stops at the newline instead of after it
RECURSIVE skip_comment_keeps_newline(_, _)
skip_comment_keeps_newline(src, p) ==
    LET ch == peek(src, p)
    IN  IF ch = NoChar THEN p
        ELSE IF ch # "\n" THEN skip_comment_keeps_newline(src, p + 1)
        ELSE p

RECURSIVE skip_comment(_, _)
skip_comment(src, p) ==
    LET ch == peek(src, p)
    IN  IF ch = NoChar THEN p
        ELSE IF ch # "\n" THEN skip_comment(src, p + 1)
        ELSE p + 1

\* skip_comment_block with the closing marker half consumed: only the '*' of
\* the closing "*/" is skipped
RECURSIVE skip_comment_block_keeps_slash(_, _)
skip_comment_block_keeps_slash(src, p) ==
    LET ch == peek(src, p)
    IN  IF ch = NoChar THEN p
        ELSE IF ch = "*" /\ peek_n(src, p, 1) = "/" THEN p + 1
        ELSE skip_comment_block_keeps_slash(src, p + 1)

RECURSIVE skip_comment_block(_, _)
skip_comment_block(src, p) ==
    LET ch == peek(src, p)
    IN  IF ch = NoChar THEN p
        ELSE IF ch = "*" /\ peek_n(src, p, 1) = "/" THEN p + 2
        ELSE skip_comment_block(src, p + 1)

-----------------------------------------------------------------------------
(* Numbers *)

\* the cursor after the run of digits and dots that scan_number collects
RECURSIVE NumberRunEnd(_, _)
NumberRunEnd(src, p) ==
    LET ch == peek(src, p)
    IN  IF ch # NoChar /\ (is_ascii_digit(ch) \/ ch = ".")
        THEN NumberRunEnd(src, p + 1)
        ELSE p

RECURSIVE DecimalValue(_)
DecimalValue(digits) ==
    IF digits = <<>> THEN 0
    ELSE 10 * DecimalValue(SubSeq(digits, 1, Len(digits) - 1))
            + DigitValue(digits[Len(digits)])

\* a decimal m / 10^e with no trailing zero in its fraction
RECURSIVE Normalize(_, _)
Normalize(m, e) ==
    IF e > 0 /\ m % 10 = 0 THEN Normalize(m \div 10, e - 1) ELSE Number(m, e)

DotsOf(text) == {i \in 1..Len(text) : text[i] = "."}

\* str::parse::<f64> on a text of digits and dots: Ok for digits with at most
\* one dot and at least one digit ("1.", ".5" and "1.5" are accepted), Err
\* otherwise.
ParseF64(text) ==
    LET dots == DotsOf(text)
    IN  IF Cardinality(dots) > 1 \/ Len(text) = Cardinality(dots)
        THEN [ok |-> FALSE]
        ELSE IF dots = {}
        THEN [ok |-> TRUE, value |-> Normalize(DecimalValue(text), 0)]
        ELSE LET d == CHOOSE i \in dots : TRUE
                 int == SubSeq(text, 1, d - 1)
                 frac == SubSeq(text, d + 1, Len(text))
             IN  [ok |-> TRUE,
                  value |-> Normalize(DecimalValue(int \o frac), Len(frac))]

scan_number(src, p) ==
    LET end == NumberRunEnd(src, p)
        parsed == ParseF64(SubSeq(src, p + 1, end))
    IN  IF parsed.ok THEN Ret(Some(parsed.value), end) ELSE Ret(Panic, end)

-----------------------------------------------------------------------------
(* Strings *)

\* the loop of scan_string: the cursor and the text collected when it ends
RECURSIVE StringBody(_, _, _, _)
StringBody(src, p, quote, string) ==
    LET n == next(src, p)
    IN  IF n.ch = NoChar THEN [text |-> string, pos |-> n.pos]
        ELSE IF n.ch = quote THEN [text |-> string, pos |-> n.pos]
        ELSE StringBody(src, n.pos, quote, Append(string, n.ch))

scan_string(src, p) ==
    LET q == next(src, p)
        body == StringBody(src, q.pos, q.ch, <<>>)
    IN  Ret(Some(String(body.text)), body.pos)

-----------------------------------------------------------------------------
(* Identifiers and keywords *)

RECURSIVE IdentifierRunEnd(_, _)
IdentifierRunEnd(src, p) ==
    LET ch == peek(src, p)
    IN  IF ch # NoChar /\ (is_ascii_alphabetic(ch) \/ is_ascii_digit(ch) \/ ch = "_")
        THEN IdentifierRunEnd(src, p + 1)
        ELSE p

KeywordMatch(identifier) ==
    CASE identifier = <<"v", "a", "r">> -> Tok("Var")
      [] identifier = <<"i", "f">> -> Tok("If")
      [] identifier = <<"e", "l", "s", "e">> -> Tok("Else")
      [] identifier = <<"w", "h", "i", "l", "e">> -> Tok("While")
      [] identifier = <<"f", "u", "n", "c", "t", "i", "o", "n">> -> Tok("Function")
      [] identifier = <<"r", "e", "t", "u", "r", "n">> -> Tok("Return")
      [] identifier = <<"t", "h", "i", "s">> -> Tok("This")
      [] identifier = <<"n", "u", "l", "l">> -> Tok("Null")
      [] identifier = <<"T", "r", "u", "e">> -> Tok("True")
      [] identifier = <<"F", "a", "l", "s", "e">> -> Tok("False")
      [] OTHER -> Identifier(identifier)

scan_identifier(src, p) ==
    LET end == IdentifierRunEnd(src, p)
    IN  Ret(Some(KeywordMatch(SubSeq(src, p + 1, end))), end)

old_KeywordMatch(identifier) ==
    CASE identifier = <<"v", "a", "r">> -> Tok("Var")
      [] identifier = <<"i", "f">> -> Tok("If")
      [] identifier = <<"e", "l", "s", "e">> -> Tok("Else")
      [] identifier = <<"w", "h", "i", "l", "e">> -> Tok("While")
      [] identifier = <<"f", "u", "n", "c", "t", "i", "o", "n">> -> Tok("Function")
      [] identifier = <<"r", "e", "t", "u", "r", "n">> -> Tok("Return")
      [] identifier = <<"t", "h", "i", "s">> -> Tok("This")
      [] identifier = <<"n", "u", "l", "l">> -> Tok("Null")
      [] OTHER -> Identifier(identifier)

old_scan_identifier(src, p) ==
    LET end == IdentifierRunEnd(src, p)
    IN  Ret(Some(old_KeywordMatch(SubSeq(src, p + 1, end))), end)

-----------------------------------------------------------------------------
(* next_token of src/lexer/Lexer.rs *)

\* '=', '!', '<', '>', '&', '|': one character of lookahead
Lookahead(src, p, second, two, one) ==
    IF peek_n(src, p, 1) = second
    THEN Ret(Some(Tok(two)), p + 2)
    ELSE Ret(Some(Tok(one)), p + 1)

\* the match on ch
MatchChar(src, p, ch) ==
    CASE ch = "+" -> Ret(Some(Tok("Plus")), p + 1)
      [] ch = "-" -> Ret(Some(Tok("Minus")), p + 1)
      [] ch = "*" -> Ret(Some(Tok("Star")), p + 1)
      [] ch = "/" ->
            IF peek_n(src, p, 1) = "/" THEN Ret(None, skip_comment(src, p + 2))
            ELSE IF peek_n(src, p, 1) = "*" THEN Ret(None, skip_comment_block(src, p + 2))
            ELSE Ret(Some(Tok("Slash")), p + 1)
      [] ch = "(" -> Ret(Some(Tok("LeftParen")), p + 1)
      [] ch = ")" -> Ret(Some(Tok("RightParen")), p + 1)
      [] ch = "{" -> Ret(Some(Tok("LeftBrace")), p + 1)
      [] ch = "}" -> Ret(Some(Tok("RightBrace")), p + 1)
      [] ch = "[" -> Ret(Some(Tok("LeftBracket")), p + 1)
      [] ch = "]" -> Ret(Some(Tok("RightBracket")), p + 1)
      [] ch = ";" -> Ret(Some(Tok("Semicolon")), p + 1)
      [] ch = "," -> Ret(Some(Tok("Comma")), p + 1)
      [] ch = "." -> Ret(Some(Tok("Dot")), p + 1)
      [] ch = "=" -> Lookahead(src, p, "=", "EqualEqual", "Equal")
      [] ch = "!" -> Lookahead(src, p, "=", "BangEqual", "Bang")
      [] ch = "<" -> Lookahead(src, p, "=", "LessEqual", "Less")
      [] ch = ">" -> Lookahead(src, p, "=", "GreaterEqual", "Greater")
      [] ch = "&" -> Lookahead(src, p, "&", "AmpersandAmpersand", "Ampersand")
      [] ch = "|" -> Lookahead(src, p, "|", "PipePipe", "Pipe")
      [] OTHER -> Ret(None, p)

next_token(src, p0) ==
    LET p == skip_whitespace(src, p0)
        ch == peek(src, p)
    IN  IF ch = NoChar THEN Ret(None, p)
        ELSE IF is_ascii_digit(ch) THEN scan_number(src, p)
        ELSE IF ch = "\"" \/ ch = "'" THEN scan_string(src, p)
        ELSE IF is_ascii_alphabetic(ch) THEN scan_identifier(src, p)
        ELSE MatchChar(src, p, ch)

-----------------------------------------------------------------------------
(* next_token of src/Lexer.rs *)

old_MatchChar(src, p, ch) ==
    CASE ch = "+" -> Ret(Some(Tok("Plus")), p + 1)
      [] ch = "-" -> Ret(Some(Tok("Minus")), p + 1)
      [] ch = "*" -> Ret(Some(Tok("Star")), p + 1)
      [] ch = "/" -> Ret(Some(Tok("Slash")), p + 1)
      [] ch = "(" -> Ret(Some(Tok("LParen")), p + 1)
      [] ch = ")" -> Ret(Some(Tok("RParen")), p + 1)
      [] ch = "{" -> Ret(Some(Tok("LBrace")), p + 1)
      [] ch = "}" -> Ret(Some(Tok("RBrace")), p + 1)
      [] ch = "[" -> Ret(Some(Tok("LBracket")), p + 1)
      [] ch = "]" -> Ret(Some(Tok("RBracket")), p + 1)
      [] ch = ";" -> Ret(Some(Tok("Semicolon")), p + 1)
      [] ch = "," -> Ret(Some(Tok("Comma")), p + 1)
      [] ch = "." -> Ret(Some(Tok("Dot")), p + 1)
      [] ch = "=" -> Lookahead(src, p, "=", "Eq", "Assign")
      [] ch = "!" -> Lookahead(src, p, "=", "Neq", "Not")
      [] ch = "<" -> Lookahead(src, p, "=", "Lte", "Lt")
      [] ch = ">" -> Lookahead(src, p, "=", "Gte", "Gt")
      [] ch = "&" -> Lookahead(src, p, "&", "And", "And")
      [] ch = "|" -> Lookahead(src, p, "|", "Or", "Or")
      [] OTHER -> Ret(None, p)

old_next_token(src, p0) ==
    LET p == skip_whitespace(src, p0)
        ch == peek(src, p)
    IN  IF ch = NoChar THEN Ret(None, p)
        ELSE IF is_ascii_digit(ch) THEN scan_number(src, p)
        ELSE IF ch = "\"" \/ ch = "'" THEN scan_string(src, p)
        ELSE IF is_ascii_alphabetic(ch) THEN old_scan_identifier(src, p)
        ELSE old_MatchChar(src, p, ch)

-----------------------------------------------------------------------------
(* The lexer as a state machine *)

Lex(snap, src, p) ==
    IF snap = "lexer" THEN next_token(src, p) ELSE old_next_token(src, p)

\* one call of Lexer::next_token; a panic ends the run and leaves the cursor
\* where the call had moved it
NextToken ==
    /\ Len(out) < MaxCalls
    /\ result # Panic
    /\ LET r == Lex(snapshot, source, pos)
       IN  /\ result' = r.ret
           /\ pos' = r.pos
           /\ out' = Append(out, r.ret)
    /\ UNCHANGED <<snapshot, source, tokens, current, ast>>

-----------------------------------------------------------------------------
(* Source texts *)

SeqsUpTo(S, n) == UNION {[1..k -> S] : k \in 0..n}

\* "1 /* c */ + /* c */ 2"
CommentedSum ==
    <<"1", " ", "/", "*", " ", "c", " ", "*", "/", " ", "+", " ",
      "/", "*", " ", "c", " ", "*", "/", " ", "2">>

\* "1 + 2"
PlainSum == <<"1", " ", "+", " ", "2">>

\* "// this is a comment"
LineCommentOnly ==
    <<"/", "/", " ", "t", "h", "i", "s", " ", "i", "s", " ", "a", " ",
      "c", "o", "m", "m", "e", "n", "t">>

\* " // a\n /* b */ \n"
BlankWithComments ==
    <<" ", "/", "/", " ", "a", "\n", " ", "/", "*", " ", "b", " ", "*", "/", " ", "\n">>

\* "1 // a\n /* b */ 2"
CommentAfterComment ==
    <<"1", " ", "/", "/", " ", "a", "\n", " ", "/", "*", " ", "b", " ", "*", "/", " ", "2">>

CommentAlphabet == {"1", "+", "/", "*", " ", "\n"}

CommentSources ==
    SeqsUpTo(CommentAlphabet, MaxLen)
        \cup {CommentedSum, PlainSum, LineCommentOnly, BlankWithComments,
              CommentAfterComment}

NoAst == [kind |-> "NoAst"]

InitLexer(snapshots, sources) ==
    /\ snapshot \in snapshots
    /\ source \in sources
    /\ pos = 0
    /\ result = None
    /\ out = <<>>
    /\ tokens = <<>>
    /\ current = 0
    /\ ast = NoAst

\* Lexer::new on a source of whitespace, comments, '1' and '+'
Init == InitLexer({"lexer"}, CommentSources)

Next == NextToken

Spec == Init /\ [][Next]_vars

-----------------------------------------------------------------------------
(* Vocabulary of the properties *)

IsSome(r) == r.tag = "Some"

\* the values returned before the first call that returned no token
RECURSIVE TokensUntilNone(_)
TokensUntilNone(o) ==
    IF o = <<>> \/ ~IsSome(Head(o)) THEN <<>>
    ELSE <<Head(o)>> \o TokensUntilNone(Tail(o))

HasEnded(o) == \E i \in 1..Len(o) : ~IsSome(o[i])

\* next_token called from cursor p until it first returns no token
RECURSIVE TokenizeFrom(_, _, _)
TokenizeFrom(snap, src, p) ==
    LET r == Lex(snap, src, p)
    IN  IF IsSome(r.ret) THEN <<r.ret>> \o TokenizeFrom(snap, src, r.pos) ELSE <<>>

Tokenize(snap, src) == TokenizeFrom(snap, src, 0)

\* indices j >= i where src has a at j and b at j + 1
PairsFrom(src, i, a, b) ==
    {j \in i..(Len(src) - 1) : src[j] = a /\ src[j + 1] = b}

Min(S) == CHOOSE x \in S : \A y \in S : x <= y

Blanks(n) == [k \in 1..n |-> " "]

\* the source with each terminated /*...*/ block comment replaced by spaces;
\* a "/*" inside a // line comment opens nothing
RECURSIVE BlankBlockCommentsFrom(_, _)
BlankBlockCommentsFrom(src, i) ==
    IF i > Len(src) THEN <<>>
    ELSE IF i < Len(src) /\ src[i] = "/" /\ src[i + 1] = "/"
    THEN LET nl == {j \in (i + 2)..Len(src) : src[j] = "\n"}
             end == IF nl = {} THEN Len(src) ELSE Min(nl)
         IN  SubSeq(src, i, end) \o BlankBlockCommentsFrom(src, end + 1)
    ELSE IF i < Len(src) /\ src[i] = "/" /\ src[i + 1] = "*"
            /\ PairsFrom(src, i + 2, "*", "/") # {}
    THEN LET close == Min(PairsFrom(src, i + 2, "*", "/"))
         IN  Blanks(close + 2 - i) \o BlankBlockCommentsFrom(src, close + 2)
    ELSE <<src[i]>> \o BlankBlockCommentsFrom(src, i + 1)

BlankBlockComments(src) == BlankBlockCommentsFrom(src, 1)

\* the source from index i on is whitespace, // line comments and terminated
\* /*...*/ block comments only
RECURSIVE IsBlankFrom(_, _)
IsBlankFrom(src, i) ==
    IF i > Len(src) THEN TRUE
    ELSE IF src[i] \in {" ", "\t", "\n", "\r"} THEN IsBlankFrom(src, i + 1)
    ELSE IF i < Len(src) /\ src[i] = "/" /\ src[i + 1] = "/"
    THEN LET nl == {j \in (i + 2)..Len(src) : src[j] = "\n"}
         IN  nl = {} \/ IsBlankFrom(src, Min(nl) + 1)
    ELSE IF i < Len(src) /\ src[i] = "/" /\ src[i + 1] = "*"
    THEN LET close == PairsFrom(src, i + 2, "*", "/")
         IN  close # {} /\ IsBlankFrom(src, Min(close) + 2)
    ELSE FALSE

IsBlankSource(src) == IsBlankFrom(src, 1)

\* where the next call starts scanning, and the character there
ScanStart == skip_whitespace(source, pos)

ScanChar == peek(source, ScanStart)

\* a next_token call returned a lexical error value
IsLexError(r) == r.tag = "Err"

-----------------------------------------------------------------------------
(* C1: comment transparency.  Once next_token of src/lexer/Lexer.rs has first *)
(* returned None, the tokens returned before it are the tokens the same     *)
(* lexer returns, up to its first None, on the source with every /*...*/    *)
(* block comment replaced by spaces.                                        *)
C1_CommentTransparency ==
    (snapshot = "lexer" /\ HasEnded(out))
        => TokensUntilNone(out) = Tokenize(snapshot, BlankBlockComments(source))

\* the example of the claim: "1 /* c */ + /* c */ 2" against "1 + 2"
C1_Example ==
    (snapshot = "lexer" /\ source = CommentedSum /\ HasEnded(out))
        => TokensUntilNone(out) = Tokenize(snapshot, PlainSum)

\* every token next_token returns from cursor p on, the calls that return None
\* after consuming a comment included, until a call consumes nothing
RECURSIVE AllTokensFrom(_, _, _)
AllTokensFrom(snap, src, p) ==
    LET r == Lex(snap, src, p)
    IN  IF IsSome(r.ret) THEN <<r.ret>> \o AllTokensFrom(snap, src, r.pos)
        ELSE IF r.ret = None /\ r.pos > skip_whitespace(src, p)
        THEN AllTokensFrom(snap, src, r.pos)
        ELSE <<>>

\* what holds in place of C1: over all calls, the None of each comment
\* skipped, the tokens are those of the source with its block comments blanked
C1_TransparentAcrossCalls ==
    snapshot = "lexer" =>
        LET all == AllTokensFrom(snapshot, BlankBlockComments(source), 0)
            got == SelectSeq(out, IsSome)
        IN  /\ Len(got) <= Len(all)
            /\ got = SubSeq(all, 1, Len(got))
            /\ (out # <<>> /\ result = None /\ pos = Len(source)) => got = all

-----------------------------------------------------------------------------
AtUnterminatedBlockComment ==
    /\ snapshot = "lexer"
    /\ ScanChar = "/"
    /\ peek_n(source, ScanStart, 1) = "*"
    /\ PairsFrom(source, ScanStart + 3, "*", "/") = {}

(* C4: an unterminated block comment is an error.  When the call of        *)
(* src/lexer/Lexer.rs starts at a "/*" that no "*/" closes, it returns an   *)
(* error value, not None.                                                   *)
C4_UnterminatedCommentIsError ==
    [][AtUnterminatedBlockComment => (IsLexError(result') /\ result' # None)]_vars

-----------------------------------------------------------------------------
(* C9: on a source of whitespace, line comments and terminated block       *)
(* comments only, every call of next_token of src/lexer/Lexer.rs returns   *)
(* None.                                                                    *)
C9_BlankSourceYieldsNoToken ==
    (snapshot = "lexer" /\ IsBlankSource(source))
        => \A i \in 1..Len(out) : out[i] = None

\* a source with a line comment and a block comment, read to its end and beyond
C9_Witness ==
    /\ snapshot = "lexer"
    /\ source = BlankWithComments
    /\ IsBlankSource(source)
    /\ pos = Len(source)
    /\ Len(out) >= 4

-----------------------------------------------------------------------------
(* Malformed sources, in both snapshots of the lexer *)

\* "1.2.3"
TwoDots == <<"1", ".", "2", ".", "3">>

\* "\"unterminated"
OpenString ==
    <<"\"", "u", "n", "t", "e", "r", "m", "i", "n", "a", "t", "e", "d">>

\* "a @ b"
StrayAt == <<"a", " ", "@", " ", "b">>

ErrorAlphabet == {"1", ".", "\"", "'", "@", "?", "a", " "}

ErrorSources ==
    SeqsUpTo(ErrorAlphabet, MaxLen - 1) \cup {TwoDots, OpenString, StrayAt}

InitErrors == InitLexer({"lexer", "old"}, ErrorSources)

SpecErrors == InitErrors /\ [][Next]_vars

\* the characters the match of next_token has an arm for
Punctuation ==
    {"+", "-", "*", "/", "(", ")", "{", "}", "[", "]", ";", ",", ".",
     "=", "!", "<", ">", "&", "|"}

\* a character that starts no scanning rule
IsUnknownChar(ch) ==
    /\ ch # NoChar
    /\ ch \notin Digits \cup LowerCase \cup UpperCase \cup Punctuation
    /\ ch \notin {"\"", "'"}
    /\ ch \notin {" ", "\t", "\n", "\r"}

-----------------------------------------------------------------------------
(* C2: an unknown character is a lexical error.  When the call starts at a *)
(* character that starts no scanning rule, it returns an error value (not  *)
(* None, not a token) and moves the cursor past the character, so that the *)
(* tokens after it can still be returned.                                  *)
C2_UnknownCharIsError ==
    [][IsUnknownChar(ScanChar)
         => (IsLexError(result') /\ result' # None /\ pos' > ScanStart)]_vars

-----------------------------------------------------------------------------
AtUnterminatedString ==
    /\ ScanChar \in {"\"", "'"}
    /\ \A j \in (ScanStart + 2)..Len(source) : source[j] # ScanChar

(* C3: an unterminated string is an error.  When the call starts at a      *)
(* quote that no later character of the source matches, it returns an      *)
(* error value and no String token.                                        *)
C3_UnterminatedStringIsError ==
    [][AtUnterminatedString
         => (IsLexError(result')
             /\ ~(IsSome(result') /\ result'.tok.kind = "String"))]_vars

-----------------------------------------------------------------------------

\* digit+ ('.' digit+)?
IsWellFormedNumeral(text) ==
    /\ text # <<>>
    /\ \A i \in 1..Len(text) : text[i] \in Digits \cup {"."}
    /\ LET dots == {i \in 1..Len(text) : text[i] = "."}
       IN  \/ dots = {}
           \/ \E d \in dots : dots = {d} /\ 1 < d /\ d < Len(text)

AtMalformedNumeral ==
    /\ ScanChar \in Digits
    /\ ~IsWellFormedNumeral(SubSeq(source, ScanStart + 1, NumberRunEnd(source, ScanStart)))

(* C5: a malformed numeral is an error.  When the call starts at a digit   *)
(* and the run of digits and dots there is not digit+ ('.' digit+)?, it    *)
(* returns an error value: no Number token, and no panic.                  *)
C5_MalformedNumeralIsError ==
    [][AtMalformedNumeral
         => (IsLexError(result') /\ result' # Panic /\ ~IsSome(result'))]_vars

\* the half of C5 that the panic breaks: a malformed numeral never aborts
C5_NoPanic == [][AtMalformedNumeral => result' # Panic]_vars

\* the half of C5 that the coercion breaks: a malformed numeral is no Number
C5_NoCoercedNumber == [][AtMalformedNumeral => ~IsSome(result')]_vars

-----------------------------------------------------------------------------
(* Operator sources, in both snapshots of the lexer *)

\* "x >= 10"
Comparison == <<"x", " ", ">", "=", " ", "1", "0">>

OperatorAlphabet == {"=", "!", "<", ">", "&", "|", "x", "1", " "}

OperatorSources == SeqsUpTo(OperatorAlphabet, MaxLen - 2) \cup {Comparison}

InitOperators == InitLexer({"lexer", "old"}, OperatorSources)

SpecOperators == InitOperators /\ [][Next]_vars

\* the character that completes the two-character operator starting with ch
Completer(ch) == IF ch \in {"&", "|"} THEN ch ELSE "="

\* the Token variant each snapshot declares for the two-character operator
TwoCharToken(snap, ch) ==
    IF snap = "lexer"
    THEN CASE ch = "=" -> Tok("EqualEqual")
           [] ch = "!" -> Tok("BangEqual")
           [] ch = "<" -> Tok("LessEqual")
           [] ch = ">" -> Tok("GreaterEqual")
           [] ch = "&" -> Tok("AmpersandAmpersand")
           [] ch = "|" -> Tok("PipePipe")
    ELSE CASE ch = "=" -> Tok("Eq")
           [] ch = "!" -> Tok("Neq")
           [] ch = "<" -> Tok("Lte")
           [] ch = ">" -> Tok("Gte")
           [] ch = "&" -> Tok("And")
           [] ch = "|" -> Tok("Or")

AtOperator == ScanChar \in {"=", "!", "<", ">", "&", "|"}

MaximalMunchStep ==
    AtOperator =>
        IF peek_n(source, ScanStart, 1) = Completer(ScanChar)
        THEN /\ result' = Some(TwoCharToken(snapshot, ScanChar))
             /\ pos' = ScanStart + 2
        ELSE /\ IsSome(result')
             /\ result'.tok # TwoCharToken(snapshot, ScanChar)
             /\ pos' = ScanStart + 1

-----------------------------------------------------------------------------
(* C6: maximal munch.  At '=', '!', '<', '>', '&' or '|' the call returns  *)
(* the two-character token and advances by 2 when the next character       *)
(* completes the operator, and otherwise a different, one-character token  *)
(* and advances by 1; in both snapshots of the lexer.                      *)
C6_MaximalMunch == [][MaximalMunchStep]_vars

\* C6 for src/lexer/Lexer.rs alone
C6_MaximalMunchLexer == [][snapshot = "lexer" => MaximalMunchStep]_vars

\* the example of C6: "x >= 10" is Identifier(x), the two-character token, Number(10)
C6_Example ==
    (source = Comparison /\ Len(out) >= 3)
        => SubSeq(out, 1, 3) =
             <<Some(Identifier(<<"x">>)), Some(TwoCharToken(snapshot, ">")),
               Some(Number(10, 0))>>

-----------------------------------------------------------------------------
(* Words, in both snapshots of the lexer *)

KeywordTexts ==
    {<<"v", "a", "r">>, <<"i", "f">>, <<"e", "l", "s", "e">>,
     <<"w", "h", "i", "l", "e">>, <<"f", "u", "n", "c", "t", "i", "o", "n">>,
     <<"r", "e", "t", "u", "r", "n">>, <<"t", "h", "i", "s">>,
     <<"n", "u", "l", "l">>, <<"t", "r", "u", "e">>, <<"f", "a", "l", "s", "e">>}

\* the keyword marker of each text of the keyword table
KeywordToken(text) ==
    CASE text = <<"v", "a", "r">> -> Tok("Var")
      [] text = <<"i", "f">> -> Tok("If")
      [] text = <<"e", "l", "s", "e">> -> Tok("Else")
      [] text = <<"w", "h", "i", "l", "e">> -> Tok("While")
      [] text = <<"f", "u", "n", "c", "t", "i", "o", "n">> -> Tok("Function")
      [] text = <<"r", "e", "t", "u", "r", "n">> -> Tok("Return")
      [] text = <<"t", "h", "i", "s">> -> Tok("This")
      [] text = <<"n", "u", "l", "l">> -> Tok("Null")
      [] text = <<"t", "r", "u", "e">> -> Tok("True")
      [] text = <<"f", "a", "l", "s", "e">> -> Tok("False")

OtherWords ==
    {<<"v", "a", "r", "i", "a", "b", "l", "e">>, <<"V", "a", "r">>,
     <<"T", "r", "u", "e">>, <<"F", "a", "l", "s", "e">>, <<"I", "F">>,
     <<"N", "u", "l", "l">>, <<"v", "a">>, <<"x">>}

TailAlphabet == {"x", "_", "1", " ", "("}

WordSources ==
    {w \o t : w \in KeywordTexts \cup OtherWords, t \in SeqsUpTo(TailAlphabet, MaxTail)}

InitWords == InitLexer({"lexer", "old"}, WordSources)

SpecWords == InitWords /\ [][Next]_vars

IdentifierChars == LowerCase \cup UpperCase \cup Digits \cup {"_"}

\* the index of the last character of the maximal run of letters, digits and
\* underscores that starts at index i
RunEnd(src, i) ==
    Min({j \in i..Len(src) : src[j] \notin IdentifierChars} \cup {Len(src) + 1}) - 1

AtLetter == ScanChar \in LowerCase \cup UpperCase

-----------------------------------------------------------------------------
PartitionStep ==
    AtLetter =>
        LET run == SubSeq(source, ScanStart + 1, RunEnd(source, ScanStart + 1))
        IN  /\ pos' = ScanStart + Len(run)
            /\ IsSome(result')
            /\ result'.tok.kind # "Identifier"
                 => (run \in KeywordTexts /\ result'.tok = KeywordToken(run))
            /\ run \notin KeywordTexts => result' = Some(Identifier(run))

(* C7: keyword/identifier partition.  At a letter, scan_identifier of      *)
(* src/lexer/Lexer.rs consumes the maximal run of letters, digits and      *)
(* underscores; it returns a keyword token only for a run that is a text   *)
(* of the keyword table (the marker of that text), and Identifier(run) for *)
(* every other run.                                                        *)
C7_KeywordIdentifierPartition == [][snapshot = "lexer" => PartitionStep]_vars

\* the examples of C7: "variable" and "Var" are each one Identifier
C7_Examples ==
    \A w \in {<<"v", "a", "r", "i", "a", "b", "l", "e">>, <<"V", "a", "r">>} :
        (source = w /\ out # <<>>) => out = <<Some(Identifier(w))>> \o Tail(out)
                                      /\ \A i \in 2..Len(out) : out[i] = None

-----------------------------------------------------------------------------
(* C8: every text of the keyword table lexes to its keyword marker, in     *)
(* both snapshots of the lexer.                                            *)
C8_KeywordsLexToMarkers ==
    (source \in KeywordTexts /\ out # <<>>) => out[1] = Some(KeywordToken(source))

\* C8 without 'true' and 'false'
C8_OtherKeywords ==
    (source \in KeywordTexts /\ out # <<>>
       /\ source \notin {<<"t", "r", "u", "e">>, <<"f", "a", "l", "s", "e">>})
        => out[1] = Some(KeywordToken(source))

-----------------------------------------------------------------------------
(* AST nodes *)

NumberLiteral(value) == [node |-> "NumberLiteral", value |-> value]

StringLiteral(text) == [node |-> "StringLiteral", value |-> text]

IdentifierNode(name) == [node |-> "Identifier", name |-> name]

\* what parse_primary yields where its last branch holds only a comment
NoNode == [node |-> "NoNode"]

\* a failed consume: the parse error that aborts the parse
ParseError(message) == [node |-> "ParseError", message |-> message]

IsParseError(n) == n.node = "ParseError"

\* the first parse error among the children, in evaluation order
FirstError(children) ==
    children[Min({i \in 1..Len(children) : IsParseError(children[i])})]

\* a node built around children: once a child is the parse error, the parse
\* has been aborted and the error is all that is left
Built(n, children) ==
    IF \E i \in 1..Len(children) : IsParseError(children[i])
    THEN FirstError(children)
    ELSE n

CallExpression(callee, arguments) ==
    Built([node |-> "CallExpression", callee |-> callee, arguments |-> arguments],
          <<callee>> \o arguments)

BinaryExpression(operator, left, right) ==
    Built([node |-> "BinaryExpression", operator |-> operator,
           left |-> left, right |-> right], <<left, right>>)

LogicalExpression(operator, left, right) ==
    Built([node |-> "LogicalExpression", operator |-> operator,
           left |-> left, right |-> right], <<left, right>>)

AssignmentExpression(operator, left, right) ==
    Built([node |-> "AssignmentExpression", operator |-> operator,
           left |-> left, right |-> right], <<left, right>>)

TernaryExpression(left, middle, right) ==
    Built([node |-> "TernaryExpression", left |-> left, middle |-> middle,
           right |-> right], <<left, middle, right>>)

UnaryExpression(operator, argument) ==
    Built([node |-> "UnaryExpression", operator |-> operator,
           argument |-> argument], <<argument>>)

\* the value of a parsing method: the node it returns and Parser.current after it
Parsed(n, cur) == [node |-> n, current |-> cur]

-----------------------------------------------------------------------------
(* Parser primitives *)

is_at_end(toks, cur) == cur >= Len(toks)

peek_token(toks, cur) == IF is_at_end(toks, cur) THEN Tok("EOF") ELSE toks[cur + 1]

check(toks, cur, kind) == ~is_at_end(toks, cur) /\ peek_token(toks, cur).kind = kind

advance(toks, cur) == IF is_at_end(toks, cur) THEN cur ELSE cur + 1

\* match_token: whether the current token is of one of the kinds
match_token(toks, cur, kinds) == \E k \in kinds : check(toks, cur, k)

previous(toks, cur) == toks[cur]

\* the text of an operator token
OperatorText(tok) ==
    CASE tok.kind = "Equal" -> "="
      [] tok.kind = "PlusEqual" -> "+="
      [] tok.kind = "MinusEqual" -> "-="
      [] tok.kind = "StarEqual" -> "*="
      [] tok.kind = "SlashEqual" -> "/="
      [] tok.kind = "PipePipe" -> "||"
      [] tok.kind = "AmpersandAmpersand" -> "&&"
      [] tok.kind = "EqualEqual" -> "=="
      [] tok.kind = "BangEqual" -> "!="
      [] tok.kind = "Less" -> "<"
      [] tok.kind = "Greater" -> ">"
      [] tok.kind = "LessEqual" -> "<="
      [] tok.kind = "GreaterEqual" -> ">="
      [] tok.kind = "Plus" -> "+"
      [] tok.kind = "Minus" -> "-"
      [] tok.kind = "Star" -> "*"
      [] tok.kind = "Slash" -> "/"
      [] tok.kind = "Bang" -> "!"

-----------------------------------------------------------------------------------------------------------------------------------------------------
(* The expression parser of src/lexer/Parser.rs                            *)
(*                                                                         *)
(* Every method takes the tokens and Parser.current and yields the node it *)
(* returns with Parser.current after it.  A method re-enters               *)
(* parse_expression only after it has consumed a token, so at a later      *)
(* cursor; `later` is the table of the values of parse_expression at the   *)
(* cursors after the one the parse started from, and the re-entry reads    *)
(* its value there.                                                        *)

\* the value of parse_expression at cursor cur > the cursor `later` was built for
ExpressionAt(toks, later, cur) == later[Len(toks) - cur + 1]

\* F applied to the value v, computed once before F uses it (a let binding
\* of the code: `let left = self.parse_and();`)
Let(v, F(_)) == CHOOSE y \in {F(x) : x \in {v}} : TRUE

RECURSIVE OrLoop(_, _, _, _)
RECURSIVE AndLoop(_, _, _, _)
RECURSIVE EqualityLoop(_, _, _, _)
RECURSIVE ComparisonLoop(_, _, _, _)
RECURSIVE AdditiveLoop(_, _, _, _)
RECURSIVE MultiplicativeLoop(_, _, _, _)
RECURSIVE parse_unary(_, _, _)
RECURSIVE CallLoop(_, _, _, _, _)
RECURSIVE ExpressionsFrom(_, _)

parse_primary(toks, cur, later) ==
    IF match_token(toks, cur, {"False"}) THEN Parsed(NumberLiteral(Number(0, 0)), cur + 1)
    ELSE IF match_token(toks, cur, {"True"}) THEN Parsed(NumberLiteral(Number(1, 0)), cur + 1)
    ELSE IF match_token(toks, cur, {"Nil"}) THEN Parsed(NumberLiteral(Number(0, 0)), cur + 1)
    ELSE IF match_token(toks, cur, {"Number"})
    THEN Parsed(NumberLiteral(previous(toks, cur + 1)), cur + 1)
    ELSE IF match_token(toks, cur, {"String"})
    THEN Parsed(StringLiteral(previous(toks, cur + 1).text), cur + 1)
    ELSE IF match_token(toks, cur, {"Identifier"})
    THEN Parsed(IdentifierNode(previous(toks, cur + 1).text), cur + 1)
    ELSE IF match_token(toks, cur, {"LeftParen"})
    THEN Let(ExpressionAt(toks, later, cur + 1),
             LAMBDA expression :
                 Parsed(expression.node, advance(toks, expression.current)))
    ELSE Parsed(NoNode, cur)

\* the while loop of parse_call_expression
CallLoop(toks, callee, arguments, cur, later) ==
    IF check(toks, cur, "LeftParen")
    THEN Let(ExpressionAt(toks, later, advance(toks, cur)),
             LAMBDA argument :
                 CallLoop(toks, callee, Append(arguments, argument.node),
                          advance(toks, argument.current), later))
    ELSE Parsed(CallExpression(callee, arguments), cur)

parse_call_expression(toks, cur, later) ==
    Let(parse_primary(toks, cur, later),
        LAMBDA callee : CallLoop(toks, callee.node, <<>>, callee.current, later))

\* unary := ('!' | '-') unary | call
parse_unary(toks, cur, later) ==
    IF match_token(toks, cur, {"Bang", "Minus"})
    THEN Let(parse_unary(toks, cur + 1, later),
             LAMBDA argument :
                 Parsed(UnaryExpression(OperatorText(previous(toks, cur + 1)),
                                        argument.node),
                        argument.current))
    ELSE parse_call_expression(toks, cur, later)

MultiplicativeLoop(toks, left, cur, later) ==
    IF match_token(toks, cur, {"Star", "Slash"})
    THEN Let(parse_unary(toks, cur + 1, later),
             LAMBDA right :
                 Let(BinaryExpression(OperatorText(previous(toks, cur + 1)),
                                      left, right.node),
                     LAMBDA folded :
                         MultiplicativeLoop(toks, folded, right.current, later)))
    ELSE Parsed(left, cur)

\* multiplicative := unary (('*' | '/') unary)*
parse_multiplicative(toks, cur, later) ==
    Let(parse_unary(toks, cur, later),
        LAMBDA left : MultiplicativeLoop(toks, left.node, left.current, later))

AdditiveLoop(toks, left, cur, later) ==
    IF match_token(toks, cur, {"Plus", "Minus"})
    THEN Let(parse_multiplicative(toks, cur + 1, later),
             LAMBDA right :
                 Let(BinaryExpression(OperatorText(previous(toks, cur + 1)),
                                      left, right.node),
                     LAMBDA folded : AdditiveLoop(toks, folded, right.current, later)))
    ELSE Parsed(left, cur)

\* additive := multiplicative (('+' | '-') multiplicative)*
parse_additive(toks, cur, later) ==
    Let(parse_multiplicative(toks, cur, later),
        LAMBDA left : AdditiveLoop(toks, left.node, left.current, later))

ComparisonLoop(toks, left, cur, later) ==
    IF match_token(toks, cur, {"Less", "Greater", "LessEqual", "GreaterEqual"})
    THEN Let(parse_additive(toks, cur + 1, later),
             LAMBDA right :
                 Let(BinaryExpression(OperatorText(previous(toks, cur + 1)),
                                      left, right.node),
                     LAMBDA folded : ComparisonLoop(toks, folded, right.current, later)))
    ELSE Parsed(left, cur)

\* comparison := additive (('<' | '>' | '<=' | '>=') additive)*
parse_comparison(toks, cur, later) ==
    Let(parse_additive(toks, cur, later),
        LAMBDA left : ComparisonLoop(toks, left.node, left.current, later))

EqualityLoop(toks, left, cur, later) ==
    IF match_token(toks, cur, {"EqualEqual", "BangEqual"})
    THEN Let(parse_comparison(toks, cur + 1, later),
             LAMBDA right :
                 Let(BinaryExpression(OperatorText(previous(toks, cur + 1)),
                                      left, right.node),
                     LAMBDA folded : EqualityLoop(toks, folded, right.current, later)))
    ELSE Parsed(left, cur)

parse_equality(toks, cur, later) ==
    Let(parse_comparison(toks, cur, later),
        LAMBDA left : EqualityLoop(toks, left.node, left.current, later))

AndLoop(toks, left, cur, later) ==
    IF match_token(toks, cur, {"AmpersandAmpersand"})
    THEN Let(parse_equality(toks, cur + 1, later),
             LAMBDA right :
                 Let(LogicalExpression(OperatorText(previous(toks, cur + 1)),
                                       left, right.node),
                     LAMBDA folded : AndLoop(toks, folded, right.current, later)))
    ELSE Parsed(left, cur)

parse_and(toks, cur, later) ==
    Let(parse_equality(toks, cur, later),
        LAMBDA left : AndLoop(toks, left.node, left.current, later))

OrLoop(toks, left, cur, later) ==
    IF match_token(toks, cur, {"PipePipe"})
    THEN Let(parse_and(toks, cur + 1, later),
             LAMBDA right :
                 Let(LogicalExpression(OperatorText(previous(toks, cur + 1)),
                                       left, right.node),
                     LAMBDA folded : OrLoop(toks, folded, right.current, later)))
    ELSE Parsed(left, cur)

parse_or(toks, cur, later) ==
    Let(parse_and(toks, cur, later),
        LAMBDA left : OrLoop(toks, left.node, left.current, later))

\* consume: the cursor after the token of the kind, or the parse error
consume(toks, cur, kind, message) ==
    IF check(toks, cur, kind)
    THEN [ok |-> TRUE, current |-> cur + 1]
    ELSE [ok |-> FALSE, error |-> ParseError(message)]

\* parse_ternary after `let left = self.parse_or();`
TernaryRest(toks, left, later) ==
    IF match_token(toks, left.current, {"Question"})
    THEN Let(ExpressionAt(toks, later, advance(toks, left.current + 1)),
             LAMBDA middle :
                 Let(consume(toks, middle.current, "Colon",
                             "Expect ':' after '?' in ternary operator."),
                     LAMBDA colon :
                         IF ~colon.ok
                         THEN Parsed(Built(colon.error, <<left.node, middle.node>>),
                                     middle.current)
                         ELSE Let(ExpressionAt(toks, later, colon.current),
                                  LAMBDA right :
                                      Parsed(TernaryExpression(left.node, middle.node,
                                                               right.node),
                                             right.current))))
    ELSE left

parse_ternary(toks, cur, later) ==
    Let(parse_or(toks, cur, later), LAMBDA left : TernaryRest(toks, left, later))

\* parse_assignment after `let left = self.parse_ternary();`
AssignmentRest(toks, left, later) ==
    IF match_token(toks, left.current,
                   {"Equal", "PlusEqual", "MinusEqual", "StarEqual", "SlashEqual"})
    THEN Let(ExpressionAt(toks, later, left.current + 1),
             LAMBDA right :
                 Parsed(AssignmentExpression(
                            OperatorText(previous(toks, left.current + 1)),
                            left.node, right.node),
                        right.current))
    ELSE left

parse_assignment(toks, cur, later) ==
    Let(parse_ternary(toks, cur, later), LAMBDA left : AssignmentRest(toks, left, later))

\* the values of parse_expression at the cursors Len(toks), Len(toks) - 1, ..,
\* cur, in that order, each computed from the values at the cursors after it
ExpressionsFrom(toks, cur) ==
    IF cur > Len(toks) THEN <<>>
    ELSE Let(ExpressionsFrom(toks, cur + 1),
             LAMBDA later : Append(later, parse_assignment(toks, cur, later)))

parse_expression(toks, cur) == ExpressionAt(toks, ExpressionsFrom(toks, cur), cur)

\* the parser, just constructed on its tokens, parses one expression
ParseExpression ==
    /\ ast = NoAst
    /\ LET parsed == parse_expression(tokens, current)
       IN  /\ ast' = parsed.node
           /\ current' = parsed.current
    /\ UNCHANGED <<snapshot, source, pos, result, out, tokens>>

-----
(* Call chains *)

InitParser(inputs) ==
    /\ snapshot = "lexer"
    /\ source = <<>>
    /\ pos = 0
    /\ result = None
    /\ out = <<>>
    /\ tokens \in inputs
    /\ current = 0
    /\ ast = NoAst

SimplePrimaries == {Identifier(<<"f">>), Number(1, 0), Number(2, 0)}

CallTokens == SimplePrimaries \cup {Tok("LeftParen"), Tok("RightParen")}

\* a primary followed by one parenthesised argument per element of args
RECURSIVE CallChain(_, _)
CallChain(primary, args) ==
    IF args = <<>> THEN <<primary>>
    ELSE CallChain(primary, SubSeq(args, 1, Len(args) - 1))
            \o <<Tok("LeftParen"), args[Len(args)], Tok("RightParen")>>

CallChains ==
    {CallChain(p, a) : p \in SimplePrimaries, a \in SeqsUpTo(SimplePrimaries, MaxArgLists)}

\* the tokens of "f(1)(2)"
ChainedCall == <<Identifier(<<"f">>), Tok("LeftParen"), Number(1, 0), Tok("RightParen"),
                 Tok("LeftParen"), Number(2, 0), Tok("RightParen")>>

InitCalls == InitParser(SeqsUpTo(CallTokens, MaxTokens) \cup CallChains \cup {ChainedCall})

SpecCalls == InitCalls /\ [][ParseExpression]_vars

\* the node of a one-token primary
PrimaryNode(tok) ==
    IF tok.kind = "Identifier" THEN IdentifierNode(tok.text) ELSE NumberLiteral(tok)

CallNode(callee, arguments) ==
    [node |-> "CallExpression", callee |-> callee, arguments |-> arguments]

\* one CallExpression per argument list, the callee of each being the call before it
RECURSIVE NestedCalls(_, _)
NestedCalls(primary, args) ==
    IF args = <<>> THEN PrimaryNode(primary)
    ELSE CallNode(NestedCalls(primary, SubSeq(args, 1, Len(args) - 1)),
                  <<PrimaryNode(args[Len(args)])>>)

-----------------------------------------------------------------------------
(* C10: call chaining.  A primary followed by k >= 1 parenthesised         *)
(* arguments parses to k nested CallExpression nodes, the callee of each   *)
(* outer call being the inner call, and a primary followed by no '(' is    *)
(* not wrapped in a CallExpression.                                        *)
C10_CallChaining ==
    \A p \in SimplePrimaries, a \in SeqsUpTo(SimplePrimaries, MaxArgLists) :
        (tokens = CallChain(p, a) /\ ast # NoAst)
            => (ast = NestedCalls(p, a) /\ current = Len(tokens))

\* the example of C10: "f(1)(2)" is a call whose callee is the call f(1)
C10_Example ==
    (tokens = ChainedCall /\ ast # NoAst)
        => ast = CallNode(CallNode(IdentifierNode(<<"f">>),
                                   <<NumberLiteral(Number(1, 0))>>),
                          <<NumberLiteral(Number(2, 0))>>)

\* what parse_call_expression returns instead: one CallExpression around the
\* primary, holding the arguments of every list, each of them wrapped in a
\* CallExpression of its own with no arguments
C10_OneCallWithAllArguments ==
    \A p \in SimplePrimaries, a \in SeqsUpTo(SimplePrimaries, MaxArgLists) :
        (tokens = CallChain(p, a) /\ ast # NoAst)
            => /\ ast = CallNode(PrimaryNode(p),
                                 [i \in 1..Len(a) |-> CallNode(PrimaryNode(a[i]), <<>>)])
               /\ current = Len(tokens)

-----------------------------------------------------------------------------
(* Expressions: operands joined by operators *)

\* operands[1] operators[1] operands[2] .. operators[n - 1] operands[n]
RECURSIVE Chain(_, _)
Chain(operands, operators) ==
    IF Len(operands) = 1 THEN <<operands[1]>>
    ELSE <<operands[1], operators[1]>> \o Chain(Tail(operands), Tail(operators))

\* the sequences over S of length n
SeqsOfLen(S, n) == [1..n -> S]

\* the operand sequences with the operator sequences that join them
ChainParts(operandSet, operatorSet) ==
    UNION {SeqsOfLen(operandSet, n) \X SeqsOfLen(operatorSet, n - 1) : n \in 1..MaxOperands}

AssignmentOperands == {Identifier(<<"a">>), Identifier(<<"b">>), Number(3, 0)}

AssignmentOperators == {Tok("Equal"), Tok("PlusEqual")}

AssignmentParts == ChainParts(AssignmentOperands, AssignmentOperators)

AssignmentChains == {Chain(c[1], c[2]) : c \in AssignmentParts}

\* the tokens of "a = b = 3"
AssignTwice == <<Identifier(<<"a">>), Tok("Equal"), Identifier(<<"b">>), Tok("Equal"),
                 Number(3, 0)>>

AssignmentNode(operator, left, right) ==
    [node |-> "AssignmentExpression", operator |-> operator, left |-> left, right |-> right]

\* the assignments nested to the right over the operand nodes:
\* n1 op (n2 op (.. nk))
RECURSIVE RightNested(_, _)
RightNested(nodes, operators) ==
    IF Len(nodes) = 1 THEN nodes[1]
    ELSE AssignmentNode(OperatorText(operators[1]), nodes[1],
                        RightNested(Tail(nodes), Tail(operators)))

\* the nodes of the one-token primaries
PrimaryNodes(operands) == [i \in 1..Len(operands) |-> PrimaryNode(operands[i])]

\* a primary as parse_call_expression returns it when no '(' follows
CalledWithNothing(tok) == CallNode(PrimaryNode(tok), <<>>)

CalledWithNothingNodes(operands) ==
    [i \in 1..Len(operands) |-> CalledWithNothing(operands[i])]

\* the keyword tokens of the literals true, false and null
KeywordLiterals == {Tok("True"), Tok("False"), Tok("Null")}

\* the tokens of "0" and "1"
ZeroAndOne == {Number(0, 0), Number(1, 0)}

LiteralTokens == {<<t>> : t \in KeywordLiterals \cup ZeroAndOne}

\* the binary operators of the levels from multiplicative to '||'
BinaryOperators ==
    {Tok("Star"), Tok("Slash"), Tok("Plus"), Tok("Minus"),
     Tok("Less"), Tok("Greater"), Tok("LessEqual"), Tok("GreaterEqual"),
     Tok("EqualEqual"), Tok("BangEqual"), Tok("AmpersandAmpersand"), Tok("PipePipe")}

\* the operands 2, 3, 4, .. in this order
NumbersFromTwo(n) == [i \in 1..n |-> Number(i + 1, 0)]

OperatorParts ==
    UNION {{NumbersFromTwo(n)} \X SeqsOfLen(BinaryOperators, n - 1) : n \in 1..MaxOperands}

OperatorChains == {Chain(c[1], c[2]) : c \in OperatorParts}

\* the tokens of "2 + 3 * 4"
SumOfProduct == <<Number(2, 0), Tok("Plus"), Number(3, 0), Tok("Star"), Number(4, 0)>>

\* the tokens of "2 + 2"
SimpleMath == <<Number(2, 0), Tok("Plus"), Number(2, 0)>>

TernaryOperands ==
    {Identifier(<<"a">>), Identifier(<<"b">>), Identifier(<<"c">>), Number(1, 0)}

\* the tokens of "left ? middle : right"
Ternary(left, middle, right) == <<left, Tok("Question"), middle, Tok("Colon"), right>>

Ternaries == {Ternary(l, m, r) : l \in TernaryOperands, m \in TernaryOperands,
                                 r \in TernaryOperands}

\* the tokens of "c ? a : b"
SimpleTernary == Ternary(Identifier(<<"c">>), Identifier(<<"a">>), Identifier(<<"b">>))

InitExpressions ==
    InitParser(AssignmentChains \cup {AssignTwice} \cup LiteralTokens
                   \cup OperatorChains \cup {SumOfProduct, SimpleMath}
                   \cup Ternaries)

SpecExpressions == InitExpressions /\ [][ParseExpression]_vars

-----------------------------------------------------------------------------
(* C11: assignment is right-associative.  A chain t1 = t2 = .. = tn parses *)
(* to AssignmentExpression(=, t1, AssignmentExpression(=, t2, ..)), the    *)
(* operands being the nodes of the primaries t1 .. tn.                     *)
C11_RightAssociative ==
    \A c \in AssignmentParts :
        (Len(c[1]) > 1 /\ tokens = Chain(c[1], c[2]) /\ ast # NoAst)
            => (ast = RightNested(PrimaryNodes(c[1]), c[2]) /\ current = Len(tokens))

\* the example of C11: "a = b = 3"
C11_Example ==
    (tokens = AssignTwice /\ ast # NoAst)
        => ast = AssignmentNode("=", IdentifierNode(<<"a">>),
                     AssignmentNode("=", IdentifierNode(<<"b">>),
                                    NumberLiteral(Number(3, 0))))

\* what parse_assignment returns: the assignments are nested to the right, and
\* every operand is the CallExpression parse_call_expression wraps it in
C11_RightNestedOverCalls ==
    \A c \in AssignmentParts :
        (tokens = Chain(c[1], c[2]) /\ ast # NoAst)
            => (ast = RightNested(CalledWithNothingNodes(c[1]), c[2]) /\ current = Len(tokens))

-----------------------------------------------------------------------------
(* Missing tokens *)

\* the tokens end before index i, or the token there neither closes nor opens
\* a parenthesis
StraysAt(toks, i) ==
    Len(toks) < i \/ toks[i].kind \notin {"RightParen", "LeftParen"}

\* '(' primary, and then no ')': the tokens of "(1" or "(1 2.."
ParenWithoutClose(toks) ==
    /\ Len(toks) >= 2
    /\ toks[1].kind = "LeftParen"
    /\ toks[2] \in SimplePrimaries
    /\ StraysAt(toks, 3)

\* primary '(' primary, and then no ')': the tokens of "f(1" or "f(1 2.."
ArgumentWithoutClose(toks) ==
    /\ Len(toks) >= 3
    /\ toks[1] \in SimplePrimaries
    /\ toks[2].kind = "LeftParen"
    /\ toks[3] \in SimplePrimaries
    /\ StraysAt(toks, 4)

\* no alternative of primary matches the first token: it is a ')'
NoPrimaryAlternative(toks) == toks # <<>> /\ toks[1].kind = "RightParen"

MissingToken(toks) ==
    ParenWithoutClose(toks) \/ ArgumentWithoutClose(toks) \/ NoPrimaryAlternative(toks)

-----------------------------------------------------------------------------
(* C12: a missing expected token is a parse error.  When '(' expression is *)
(* not followed by ')', in a parenthesised primary or in an argument list, *)
(* or when no alternative of primary matches the current token, the parse  *)
(* ends in a parse error and not in a node.                                *)
C12_MissingTokenIsParseError ==
    (MissingToken(tokens) /\ ast # NoAst) => IsParseError(ast)

\* what the parser does instead: on these tokens it always returns a
\* CallExpression, and where a token stands in the place of the missing ')'
\* the cursor has moved past it
C12_SilentlyProceeds ==
    (MissingToken(tokens) /\ ast # NoAst)
        => /\ ast.node = "CallExpression"
           /\ ParenWithoutClose(tokens) => current >= Min({3, Len(tokens)})
           /\ ArgumentWithoutClose(tokens) => current >= Min({4, Len(tokens)})

-----------------------------------------------------------------------------
\* the node a parser constructed on toks returns from parse_expression
ParseOf(toks) == parse_expression(toks, 0).node

(* C13: true, false and null parse to dedicated literals.  The parse of    *)
(* each of the tokens True, False and Null differs from the parse of every *)
(* number and from the parses of the other two.                            *)
C13_DedicatedLiterals ==
    \A t \in KeywordLiterals :
        (tokens = <<t>> /\ ast # NoAst)
            => /\ \A n \in ZeroAndOne : ast # ParseOf(<<n>>)
               /\ \A u \in KeywordLiterals \ {t} : ast # ParseOf(<<u>>)

\* what parse_primary returns: true is the number 1 and false is the number 0
C13_BooleansAreNumbers ==
    /\ (tokens = <<Tok("True")>> /\ ast # NoAst) => ast = ParseOf(<<Number(1, 0)>>)
    /\ (tokens = <<Tok("False")>> /\ ast # NoAst) => ast = ParseOf(<<Number(0, 0)>>)

-----------------------------------------------------------------------------
(* Precedence *)

\* the level of a binary operator in the grammar, the loosest being 1
Level(tok) ==
    CASE tok.kind = "PipePipe" -> 1
      [] tok.kind = "AmpersandAmpersand" -> 2
      [] tok.kind \in {"EqualEqual", "BangEqual"} -> 3
      [] tok.kind \in {"Less", "Greater", "LessEqual", "GreaterEqual"} -> 4
      [] tok.kind \in {"Plus", "Minus"} -> 5
      [] tok.kind \in {"Star", "Slash"} -> 6

Max(S) == CHOOSE x \in S : \A y \in S : y <= x

OperatorNode(tok, left, right) ==
    [node |-> IF Level(tok) <= 2 THEN "LogicalExpression" ELSE "BinaryExpression",
     operator |-> OperatorText(tok), left |-> left, right |-> right]

\* the tree in which every operator groups its operands before any operator
\* of a looser level does, operators of one level grouping from the left:
\* the root is the last operator of the loosest level present
RECURSIVE Grouped(_, _)
Grouped(nodes, operators) ==
    IF Len(nodes) = 1 THEN nodes[1]
    ELSE LET loosest == Min({Level(operators[i]) : i \in 1..Len(operators)})
             root == Max({i \in 1..Len(operators) : Level(operators[i]) = loosest})
         IN  OperatorNode(operators[root],
                          Grouped(SubSeq(nodes, 1, root), SubSeq(operators, 1, root - 1)),
                          Grouped(SubSeq(nodes, root + 1, Len(nodes)),
                                  SubSeq(operators, root + 1, Len(operators))))

(* C14: operator precedence.  In a chain of operands joined by binary      *)
(* operators, an operator of a tighter level groups its operands before an *)
(* operator of a looser level, whatever their order in the source; the     *)
(* leaves of the tree are the nodes of the operands.                       *)
C14_Precedence ==
    \A c \in OperatorParts :
        (Len(c[1]) > 1 /\ tokens = Chain(c[1], c[2]) /\ ast # NoAst)
            => (ast = Grouped(PrimaryNodes(c[1]), c[2]) /\ current = Len(tokens))

\* the examples of C14: "2 + 3 * 4" and "2 + 2"
C14_Examples ==
    /\ (tokens = SumOfProduct /\ ast # NoAst)
           => ast = [node |-> "BinaryExpression", operator |-> "+",
                     left |-> NumberLiteral(Number(2, 0)),
                     right |-> [node |-> "BinaryExpression", operator |-> "*",
                                left |-> NumberLiteral(Number(3, 0)),
                                right |-> NumberLiteral(Number(4, 0))]]
    /\ (tokens = SimpleMath /\ ast # NoAst)
           => ast = [node |-> "BinaryExpression", operator |-> "+",
                     left |-> NumberLiteral(Number(2, 0)),
                     right |-> NumberLiteral(Number(2, 0))]

\* what the parser returns: the operators group by their levels, and every
\* operand is the CallExpression parse_call_expression wraps it in
C14_PrecedenceOverCalls ==
    \A c \in OperatorParts :
        (tokens = Chain(c[1], c[2]) /\ ast # NoAst)
            => (ast = Grouped(CalledWithNothingNodes(c[1]), c[2])
                /\ current = Len(tokens))

-----------------------------------------------------------------------------
(* Ternaries *)

TernaryNode(left, middle, right) ==
    [node |-> "TernaryExpression", left |-> left, middle |-> middle, right |-> right]

\* n is the node of the one-token operand, bare or as parse_call_expression
\* returns it
IsOperand(n, tok) == n \in {PrimaryNode(tok), CalledWithNothing(tok)}

(* C15: the ternary follows logicOr ('?' expression ':' expression)?.  The *)
(* then-branch is parsed from the token right after '?': the children of   *)
(* the node of "l ? m : r" are l, m and r in this order, and the cursor    *)
(* ends just past r.                                                       *)
C15_TernaryProduction ==
    \A l \in TernaryOperands, m \in TernaryOperands, r \in TernaryOperands :
        (tokens = Ternary(l, m, r) /\ ast # NoAst)
            => /\ ast.node = "TernaryExpression"
               /\ IsOperand(ast.left, l)
               /\ IsOperand(ast.middle, m)
               /\ IsOperand(ast.right, r)
               /\ current = Len(tokens)

\* the example of C15: "c ? a : b"
C15_Example ==
    (tokens = SimpleTernary /\ ast # NoAst)
        => /\ ast = TernaryNode(IdentifierNode(<<"c">>), IdentifierNode(<<"a">>),
                                IdentifierNode(<<"b">>))
           /\ current = 5

\* what parse_ternary returns: the token after '?' is skipped, the
\* then-branch is parsed at ':' and is the empty primary, and the cursor
\* does end just past r
C15_ThenBranchSkipped ==
    \A l \in TernaryOperands, m \in TernaryOperands, r \in TernaryOperands :
        (tokens = Ternary(l, m, r) /\ ast # NoAst)
            => /\ ast = TernaryNode(CalledWithNothing(l), CallNode(NoNode, <<>>),
                                    CalledWithNothing(r))
               /\ current = Len(tokens)

-----------------------------------------------------------------------------
(* Calls at a comment *)

\* the next call starts scanning at a "//" or a "/*"
AtLineComment == ScanChar = "/" /\ peek_n(source, ScanStart, 1) = "/"

AtBlockComment == ScanChar = "/" /\ peek_n(source, ScanStart, 1) = "*"

\* the indices from i on at which src holds the character ch
CharsFrom(src, i, ch) == {j \in i..Len(src) : src[j] = ch}

\* the cursor just past the comment that starts at ScanStart: past the newline
\* that ends a "//" comment, past the first "*/" after the "/*" of a block
\* comment, and the end of the source where there is none
CommentEnd ==
    IF AtLineComment
    THEN LET newlines == CharsFrom(source, ScanStart + 3, "\n")
         IN  IF newlines = {} THEN Len(source) ELSE Min(newlines)
    ELSE LET closers == PairsFrom(source, ScanStart + 3, "*", "/")
         IN  IF closers = {} THEN Len(source) ELSE Min(closers) + 1

\* the last call returned None although the source is not exhausted
NoneBeforeTheEnd == out # <<>> /\ result = None /\ ScanChar # NoChar

\* the kind of the token that starts with ch, for the characters of the
\* sources with comments
TokenKindAt(ch) ==
    CASE is_ascii_digit(ch) -> "Number"
      [] ch = "+" -> "Plus"
      [] ch = "*" -> "Star"
      [] ch = "/" -> "Slash"

\* a token starts where the next call starts scanning, and no comment
AtTokenStart ==
    \/ is_ascii_digit(ScanChar)
    \/ ScanChar \in {"+", "*"}
    \/ ScanChar = "/" /\ ~(AtLineComment \/ AtBlockComment)

\* the tokens the calls from the cursor on return
LaterTokens == AllTokensFrom(snapshot, source, pos)

(* C16: in src/lexer/Lexer.rs a next_token call whose cursor, after         *)
(* whitespace, is at a "//" or "/*" comment consumes the comment and       *)
(* returns None for that call, and the next call returns the first token   *)
(* after the comment.                                                      *)
C16_NextCallReturnsToken ==
    [][snapshot = "lexer" =>
           /\ (AtLineComment \/ AtBlockComment)
                  => (result' = None /\ pos' = CommentEnd)
           /\ (NoneBeforeTheEnd /\ LaterTokens # <<>>)
                  => result' = LaterTokens[1]]_vars

(* C16 with adjacent comments told apart: the call at a comment consumes   *)
(* it and returns None; the next call returns the first token after the    *)
(* comment when that token starts right after the comment, and None again  *)
(* when another comment starts there.                                      *)
C16_CommentCallReturnsNone ==
    [][snapshot = "lexer" =>
           /\ (AtLineComment \/ AtBlockComment)
                  => (result' = None /\ pos' = CommentEnd)
           /\ (NoneBeforeTheEnd /\ AtTokenStart)
                  => /\ IsSome(result')
                     /\ result' = LaterTokens[1]
                     /\ result'.tok.kind = TokenKindAt(ScanChar)
                     /\ pos' > ScanStart]_vars

\* "1 /* c */ + /* c */ 2": the second call returned None at the comment and
\* the third the '+' after it
C16_Witness ==
    /\ snapshot = "lexer"
    /\ source = CommentedSum
    /\ Len(out) = 3
    /\ out[2] = None
    /\ out[3] = Some(Tok("Plus"))
    /\ pos < Len(source)

-----------------------------------------------------------------------------
(* The cursor *)

\* "\"a": a string that the end of the source cuts short
CutString == <<"\"", "a">>

\* "1 /*": a block comment that the end of the source cuts short
CutComment == <<"1", " ", "/", "*">>

CursorAlphabet == {"1", ".", "\"", "a", "/", "*", "\n", "=", "@"}

CursorSources ==
    SeqsUpTo(CursorAlphabet, MaxLen - 1) \cup {CutString, CutComment, CommentedSum}

\* Lexer::new on a source of numerals, strings, words, comments, operators
\* and a character next_token has no rule for
InitCursor == InitLexer({"lexer"}, CursorSources)

SpecCursor == InitCursor /\ [][Next]_vars

(* C17: the cursor of the Lexer.  In every state 0 <= pos <= the number of *)
(* characters of the source; no next_token call decreases pos, every call  *)
(* that returns a token increases pos by at least 1, and so at most as     *)
(* many tokens are returned as the source has characters.                  *)
C17_CursorInvariant ==
    [][/\ 0 <= pos /\ pos <= Len(source)
       /\ 0 <= pos' /\ pos' <= Len(source)
       /\ pos' >= pos
       /\ IsSome(result') => pos' >= pos + 1
       /\ Len(SelectSeq(out', IsSome)) <= Len(source)]_vars

\* the string of "\"a" has been returned with the cursor at the end of the
\* source, where scan_string's last call of next found no character
C17_Witness ==
    /\ source = CutString
    /\ out = <<Some(String(<<"a">>))>>
    /\ pos = Len(source)

====
